---- MODULE Spec2Model ----
(***************************************************************************)
(* Student Management System (studentmanagement.py): the batch directory,  *)
(* the record store and the search of the Streamlit application, over the  *)
(* two backing spreadsheets (IELTS, Aptis).                                 *)
(*                                                                         *)
(* A text is a sequence of one-character strings, so that splitting,        *)
(* lower-casing, number conversion and pattern matching are computed.       *)
(***************************************************************************)
EXTENDS Integers, Sequences, FiniteSets, TLC

VARIABLES sheets, last, pc, job, raced, session, clock

vars == <<sheets, last, pc, job, raced, session, clock>>

\* ------------------------------------------------------------------ bounds
MaxSheets == 2
MaxStudents == 1
\* the clock runs from 0 to MaxClock seconds, TickStep seconds at a time
MaxClock == 600
TickStep == 150

\* ------------------------------------------------------------------- texts
TypeSet == {"IELTS", "Aptis"}

OtherType(t) == IF t = "IELTS" THEN "Aptis" ELSE "IELTS"

TypeText(t) ==
    IF t = "IELTS" THEN <<"I", "E", "L", "T", "S">>
    ELSE <<"A", "p", "t", "i", "s">>

UpperLetters ==
    <<"A", "B", "C", "D", "E", "F", "G", "H", "I", "J", "K", "L", "M",
      "N", "O", "P", "Q", "R", "S", "T", "U", "V", "W", "X", "Y", "Z">>

LowerLetters ==
    <<"a", "b", "c", "d", "e", "f", "g", "h", "i", "j", "k", "l", "m",
      "n", "o", "p", "q", "r", "s", "t", "u", "v", "w", "x", "y", "z">>

\* str.lower() of one character
LowerChar(c) ==
    IF \E i \in 1..26 : UpperLetters[i] = c
    THEN LowerLetters[CHOOSE i \in 1..26 : UpperLetters[i] = c]
    ELSE c

\* str.lower()
LowerText(t) == [i \in 1..Len(t) |-> LowerChar(t[i])]

Digits == {"0", "1", "2", "3", "4", "5", "6", "7", "8", "9"}

\* int(value) succeeds: here, on a non-empty text of decimal digits
IsInt(t) == Len(t) > 0 /\ \A i \in 1..Len(t) : t[i] \in Digits

RECURSIVE StripZeros(_)
\* str(int(value)): the decimal numeral without leading zeros
StripZeros(t) ==
    IF Len(t) > 1 /\ t[1] = "0" THEN StripZeros(Tail(t)) ELSE t

\* the position of the first occurrence of sep in t, 0 if there is none
FindFirst(t, sep) ==
    LET hits == {i \in 1..(Len(t) - Len(sep) + 1) :
                    \A j \in 1..Len(sep) : t[i + j - 1] = sep[j]}
    IN IF hits = {} THEN 0
       ELSE CHOOSE i \in hits : \A k \in hits : i <= k

\* label.split(sep)[0]
SplitFirst(t, sep) ==
    IF FindFirst(t, sep) = 0 THEN t ELSE SubSeq(t, 1, FindFirst(t, sep) - 1)

\* Series.str.contains(pat) with pandas' default regex=True: re.search of the
\* pattern, where "." matches any character and the other characters of the
\* model's alphabet match themselves
ReContains(t, pat) ==
    \E i \in 1..(Len(t) - Len(pat) + 1) :
        \A j \in 1..Len(pat) : pat[j] = "." \/ pat[j] = t[i + j - 1]

\* -------------------------------------------------------------- worksheets
Empty == <<>>

\* headers (lines 546-549); a header cell is one token
Headers ==
    << <<"Timestamp">>, <<"Student ID">>, <<"Full Name">>,
       <<"Contact Number">>, <<"Email Address">>, <<"Batch">>, <<"Time">>,
       <<"Year">>, <<"Status">>, <<"Notes">> >>

\* index of a column in the header row
Col(h) == CHOOSE i \in 1..Len(Headers) : Headers[i] = <<h>>

\* datetime.now().strftime("%Y-%m-%d %H:%M:%S")
Timestamp ==
    <<"2", "0", "2", "6", "-", "1", "1", "-", "0", "4", " ",
      "1", "0", ":", "3", "0", ":", "0", "0">>

\* datetime.now().year, as the cell shows it
YearNow == <<"2", "0", "2", "6">>

Active == <<"A", "C", "T", "I", "V", "E">>

NoNotes == <<"N", "o", " ", "n", "o", "t", "e", "s">>

\* worksheet titles of one spreadsheet
Titles(ss, t) == {ss[t][i].title : i \in 1..Len(ss[t])}

\* the remote service: spreadsheet.add_worksheet(title=...) appends a blank
\* worksheet to the spreadsheet's worksheet list
AddWorksheet(ss, t, title) ==
    [ss EXCEPT ![t] = Append(@, [title |-> title, rows |-> <<>>])]

\* a write that puts the row before the rows the worksheet has
AppendRowAtTop(ss, t, i, row) ==
    [ss EXCEPT ![t][i].rows = <<row>> \o @]

\* the remote service: worksheet.append_row(values) adds one row at the end
AppendRow(ss, t, i, row) ==
    [ss EXCEPT ![t][i].rows = Append(@, row)]

\* get_spreadsheet + get_all_batch_names (lines 155-173): one descriptor per
\* worksheet of each reachable spreadsheet, IELTS first, then Aptis
Descriptors(ss, t) ==
    [i \in 1..Len(ss[t]) |-> [name |-> ss[t][i].title, type |-> t, idx |-> i]]

\* the directory that gives nothing when a spreadsheet is not reached
get_all_batch_names_or_none(ss, reach) ==
    IF reach = [t \in TypeSet |-> TRUE]
    THEN Descriptors(ss, "IELTS") \o Descriptors(ss, "Aptis")
    ELSE <<>>

\* the directory with the Aptis spreadsheet read first
get_all_batch_names_aptis_first(ss, reach) ==
    (IF reach["Aptis"] THEN Descriptors(ss, "Aptis") ELSE <<>>)
    \o (IF reach["IELTS"] THEN Descriptors(ss, "IELTS") ELSE <<>>)

get_all_batch_names(ss, reach) ==
    (IF reach["IELTS"] THEN Descriptors(ss, "IELTS") ELSE <<>>)
    \o (IF reach["Aptis"] THEN Descriptors(ss, "Aptis") ELSE <<>>)

\* cell.strip() is not "": the cell has a character that is not a blank
NotBlank(cell) == \E i \in 1..Len(cell) : cell[i] # " "

\* lines 175-188: worksheet.get_all_values() gives every row as strings; the
\* first row is passed over, every other row with a cell that is not blank
\* is counted
get_student_count(ws) ==
    Cardinality({k \in 2..Len(ws.rows) :
                    \E c \in 1..Len(ws.rows[k]) : NotBlank(ws.rows[k][c])})

\* existing_names = [b["name"] for b in all_batches]
Names(batches) == {batches[i].name : i \in 1..Len(batches)}

\* ------------------------------------------------------------ create batch
AllReach == [t \in TypeSet |-> TRUE]

ReachSet == [TypeSet -> BOOLEAN]

\* the step of a write in a handler that the remote service refuses
CreateFails == {"none", "add", "header", "format"}

\* the check written as a substring test: batch_name in some listed name
DuplicateNameSubstring(ss, name, reach) ==
    \E n \in Names(get_all_batch_names(ss, reach)) : FindFirst(n, name) # 0

\* lines 525-531: the duplicate check against the fail-soft directory
DuplicateName(ss, name, reach) == name \in Names(get_all_batch_names(ss, reach))

\* the insertion with the directory read again just before it
InsertWorksheetChecked(ss, name, type, reach, fail) ==
    IF ~reach[type] THEN [sheets |-> ss, outcome |-> "unreachable"]
    ELSE IF fail = "add" \/ name \in Titles(ss, "IELTS") \cup Titles(ss, "Aptis")
         THEN [sheets |-> ss, outcome |-> "failed"]
         ELSE [sheets |-> AddWorksheet(ss, type, name), outcome |-> "added"]

\* lines 536-543: get_spreadsheet(batch_type), then add_worksheet. The service
\* refuses a title the spreadsheet already has.
InsertWorksheet(ss, name, type, reach, fail) ==
    IF ~reach[type] THEN [sheets |-> ss, outcome |-> "unreachable"]
    ELSE IF fail = "add" \/ name \in Titles(ss, type)
         THEN [sheets |-> ss, outcome |-> "failed"]
         ELSE [sheets |-> AddWorksheet(ss, type, name), outcome |-> "added"]

\* lines 545-558: the header row, then its formatting, on the new worksheet
WriteHeader(ss, type, idx, fail) ==
    IF fail = "header" THEN [sheets |-> ss, outcome |-> "failed"]
    ELSE IF fail = "format"
         THEN [sheets |-> AppendRow(ss, type, idx, Headers), outcome |-> "failed"]
         ELSE [sheets |-> AppendRow(ss, type, idx, Headers), outcome |-> "created"]

\* lines 520-582: one submit of the Create Batch form
create_batch(ss, name, type, reach, fail) ==
    IF name = Empty THEN [sheets |-> ss, outcome |-> "empty_name"]
    ELSE IF DuplicateName(ss, name, reach)
         THEN [sheets |-> ss, outcome |-> "duplicate"]
         ELSE LET ins == InsertWorksheet(ss, name, type, reach, fail)
              IN IF ins.outcome # "added" THEN ins
                 ELSE WriteHeader(ins.sheets, type, Len(ins.sheets[type]), fail)

\* ------------------------------------------------------------- add student
\* f"{b['name']} ({b['type']})"
Label(b) == b.name \o <<" ", "(">> \o TypeText(b.type) \o <<")">>

\* selected_batch.split(" (")[0]
RecoverName(label) == SplitFirst(label, <<" ", "(">>)

\* [b for b in all_batches if b["type"] == batch_type]
OfType(batches, type) ==
    LET Is(b) == b.type = type IN SelectSeq(batches, Is)

\* the validation without the test of the batch
MissingFieldsNoBatch(st, batch_name) ==
    {f \in {"Full Name", "Student ID", "Contact Number", "Email Address"} :
        \/ f = "Full Name" /\ st.name = Empty
        \/ f = "Student ID" /\ st.id = Empty
        \/ f = "Contact Number" /\ st.contact = Empty
        \/ f = "Email Address" /\ st.email = Empty}

\* lines 682-687
MissingFields(st, batch_name) ==
    {f \in {"Full Name", "Student ID", "Contact Number", "Email Address", "Batch"} :
        \/ f = "Full Name" /\ st.name = Empty
        \/ f = "Student ID" /\ st.id = Empty
        \/ f = "Contact Number" /\ st.contact = Empty
        \/ f = "Email Address" /\ st.email = Empty
        \/ f = "Batch" /\ batch_name = Empty}

\* the lookup written with startswith in place of ==
FindBatchPrefix(batches, batch_name) ==
    LET hits == {i \in 1..Len(batches) : FindFirst(batches[i].name, batch_name) = 1}
    IN IF hits = {} THEN 0
       ELSE CHOOSE i \in hits : \A k \in hits : i <= k

\* lines 694-698: the first descriptor of the directory with that name
FindBatch(batches, batch_name) ==
    LET hits == {i \in 1..Len(batches) : batches[i].name = batch_name}
    IN IF hits = {} THEN 0
       ELSE CHOOSE i \in hits : \A k \in hits : i <= k

\* the row with the student ID and the name in each other's place
student_data_swapped(st, batch_name, batch_type) ==
    <<Timestamp, st.name, st.id, st.contact, st.email, batch_name,
      TypeText(batch_type), YearNow, Active,
      IF st.notes # Empty THEN st.notes ELSE NoNotes>>

\* lines 707-718
student_data(st, batch_name, batch_type) ==
    <<Timestamp, st.id, st.name, st.contact, st.email, batch_name,
      TypeText(batch_type), YearNow, Active,
      IF st.notes # Empty THEN st.notes ELSE NoNotes>>

NoTarget == [type |-> "none", idx |-> 0]

\* lines 597-753: one submit of the Add Student form; choice is the position
\* of the selected option among the batches of the selected type
add_student(ss, st, batch_type, choice, reach, fail) ==
    LET all_batches == get_all_batch_names(ss, reach)
        available == OfType(all_batches, batch_type)
        batch_name == IF available = <<>> THEN Empty
                      ELSE RecoverName(Label(available[choice]))
        found == FindBatch(all_batches, batch_name)
        none(o) == [sheets |-> ss, outcome |-> o, batch_name |-> batch_name,
                    target |-> NoTarget, missing |-> {}]
    IN IF all_batches = <<>> THEN none("no_batches")
       ELSE IF MissingFields(st, batch_name) # {}
            THEN [none("missing_fields") EXCEPT !.missing = MissingFields(st, batch_name)]
       ELSE IF found = 0 THEN none("batch_not_found")
       ELSE IF fail THEN none("failed")
       ELSE [sheets |-> AppendRow(ss, all_batches[found].type, all_batches[found].idx,
                                  student_data(st, batch_name, batch_type)),
             outcome |-> "added", batch_name |-> batch_name,
             target |-> [type |-> all_batches[found].type,
                         idx |-> all_batches[found].idx],
             missing |-> {}]

\* ------------------------------------------------------------ find student
\* gspread numericise, applied by get_all_records to every cell: a cell that
\* int() accepts becomes a number, every other cell stays the string it is.
\* txt is what astype(str) makes of the value.
Numericise(cell) ==
    IF IsInt(cell) THEN [num |-> TRUE, txt |-> StripZeros(cell)]
    ELSE [num |-> FALSE, txt |-> cell]

\* truth of the cell as a string: only "" is false
TruthyNonEmpty(v) == v.txt # Empty

\* Python truth of a value of get_all_records: "" and 0 are false
Truthy(v) == IF v.num THEN v.txt # <<"0">> ELSE v.txt # Empty

\* worksheet.get_all_records(): row 1 gives the keys, every later row one
\* record; only a worksheet whose row 1 is the header row yields records with
\* the keys the pages read
get_all_records(ws) ==
    IF Len(ws.rows) = 0 \/ ws.rows[1] # Headers THEN <<>>
    ELSE [k \in 1..(Len(ws.rows) - 1) |->
            [c \in 1..Len(Headers) |-> Numericise(ws.rows[k + 1][c])]]

\* lines 812-820: the records of one batch that the search keeps, each with
\* Batch_Name and Batch_Type added (row is the record's place below row 1)
BatchStudents(ss, b) ==
    LET data == get_all_records(ss[b.type][b.idx])
        recs == [k \in 1..Len(data) |->
                    [vals |-> data[k], Batch_Name |-> b.name, Batch_Type |-> b.type,
                     idx |-> b.idx, row |-> k]]
        Keep(r) == Truthy(r.vals[Col("Student ID")]) \/ Truthy(r.vals[Col("Full Name")])
    IN SelectSeq(recs, Keep)

RECURSIVE AllStudents(_, _)
\* lines 805-822
AllStudents(ss, batches) ==
    IF batches = <<>> THEN <<>>
    ELSE BatchStudents(ss, Head(batches)) \o AllStudents(ss, Tail(batches))

AllBatches == <<"All Batches">>

AllTypes == "All Types"

AllYears == <<"All Years">>

SearchTypes == {"All Fields", "Name Only", "ID Only", "Email Only", "Contact Only"}

\* lines 846-853: the column a field-scoped search reads
SearchColumn(search_type) ==
    IF search_type = "Name Only" THEN Col("Full Name")
    ELSE IF search_type = "ID Only" THEN Col("Student ID")
    ELSE IF search_type = "Email Only" THEN Col("Email Address")
    ELSE Col("Contact Number")

\* df.astype(str): every column of the frame as text, the two added ones too
FrameTexts(r) ==
    {r.vals[c].txt : c \in 1..Len(Headers)} \cup {r.Batch_Name, TypeText(r.Batch_Type)}

\* lines 843-857: the mask of one record
Mask(r, search_lower, search_type) ==
    IF search_type = "All Fields"
    THEN \E t \in FrameTexts(r) : ReContains(LowerText(t), search_lower)
    ELSE ReContains(LowerText(r.vals[SearchColumn(search_type)].txt), search_lower)

\* the filters with the year filter left out
PassesFiltersNoYear(r, batch_filter, type_filter, year_filter) ==
    /\ batch_filter = AllBatches \/ r.Batch_Name = batch_filter
    /\ type_filter = AllTypes \/ r.Batch_Type = type_filter

\* lines 831-840
PassesFilters(r, batch_filter, type_filter, year_filter) ==
    /\ batch_filter = AllBatches \/ r.Batch_Name = batch_filter
    /\ type_filter = AllTypes \/ r.Batch_Type = type_filter
    /\ year_filter = AllYears \/ r.vals[Col("Year")].txt = year_filter

\* lines 801-859: the frame the Find Student page shows
search(ss, reach, search_query, search_type, batch_filter, type_filter, year_filter) ==
    LET all_students == AllStudents(ss, get_all_batch_names(ss, reach))
        Filter(r) == PassesFilters(r, batch_filter, type_filter, year_filter)
        Match(r) == search_query = Empty
                    \/ Mask(r, LowerText(search_query), search_type)
    IN SelectSeq(SelectSeq(all_students, Filter), Match)

\* ------------------------------------------------------------------ inputs
G == <<"G", "1">>

GParen == <<"G", "1", " ", "(">>

BatchNames == {Empty, G, GParen}

H == <<"H">>

\* line 505: the time slots of the Create Batch form. The submit shows the
\* chosen slot in its success message (line 568) and stores it nowhere.
TimeSlots ==
    {<<"4", ":", "0", "0", " ", "P", "M">>, <<"6", ":", "0", "0", " ", "P", "M">>,
     <<"O", "t", "h", "e", "r">>}

Ann == [tag |-> "Ann", id |-> <<"S", "1">>, name |-> <<"A", "n", "n">>,
        contact |-> <<"0", "7">>, email |-> <<"a", "@", "x">>, notes |-> Empty]

Zed == [tag |-> "Zed", id |-> <<"0">>, name |-> <<"0", "0">>,
        contact |-> <<"7">>, email |-> <<"z">>, notes |-> <<"n">>]

Anon == [tag |-> "Anon", id |-> <<"S", "2">>, name |-> Empty,
         contact |-> <<"7">>, email |-> <<"z">>, notes |-> Empty]

Students == {Ann, Zed, Anon}

Queries == {Empty, <<"A", "N">>, <<".">>, <<"0", "7">>, <<"q">>}

BatchFilters == {AllBatches, G, GParen}

TypeFilters == {AllTypes, "IELTS", "Aptis"}

YearFilters == {AllYears, YearNow, <<"2", "0", "2", "5">>}

\* the filters of the searches of Spec: none, or one of each kind
SearchFilters ==
    {[batch |-> AllBatches, type |-> AllTypes, year |-> AllYears],
     [batch |-> G, type |-> "Aptis", year |-> <<"2", "0", "2", "5">>]}

\* ----------------------------------------------------------------- session
\* line 46: the reuse window of the client, in seconds
ReuseWindow == 300

\* st.session_state.gc is None / a client, known by the time it was authorized
NoClient == [at |-> -1]

\* st.session_state.last_update is None
NoTime == -1

\* lines 28-35
NoSession ==
    [gc |-> NoClient, last_update |-> NoTime, connection_status |-> "disconnected"]

\* what an authentication meets: the secrets, the credentials, the test call
AuthEnvs == {"ok", "no_credentials", "error", "test_failed"}

\* the reuse test written with <= in place of <
initialize_google_sheets_inclusive(s, now, env) ==
    IF s.gc # NoClient /\ s.last_update # NoTime /\ now - s.last_update <= ReuseWindow
    THEN [session |-> s, gc |-> s.gc, path |-> "reused"]
    ELSE IF env = "ok"
    THEN [session |-> [gc |-> [at |-> now], last_update |-> now,
                       connection_status |-> "connected"],
          gc |-> [at |-> now], path |-> "authorized"]
    ELSE [session |-> [s EXCEPT !.connection_status = env],
          gc |-> NoClient, path |-> env]

\* lines 40-101: the session after the call, the client returned, the path
initialize_google_sheets(s, now, env) ==
    IF s.gc # NoClient /\ s.last_update # NoTime /\ now - s.last_update < ReuseWindow
    THEN [session |-> s, gc |-> s.gc, path |-> "reused"]
    ELSE IF env = "ok"
    THEN [session |-> [gc |-> [at |-> now], last_update |-> now,
                       connection_status |-> "connected"],
          gc |-> [at |-> now], path |-> "authorized"]
    ELSE [session |-> [s EXCEPT !.connection_status = env],
          gc |-> NoClient, path |-> env]

\* Refresh Connection that forgets the client and keeps the status
refresh_connection_keeps_status(s) == [s EXCEPT !.gc = NoClient]

\* Refresh Connection that sets the status and keeps the client
refresh_connection_keeps_client(s) == [s EXCEPT !.connection_status = "disconnected"]

\* lines 294-296: Refresh Connection
refresh_connection(s) ==
    [s EXCEPT !.gc = NoClient, !.connection_status = "disconnected"]

\* ------------------------------------------------------------------- state
\* rows that are not the header row, over both spreadsheets
RECURSIVE StudentRows(_)
StudentRows(wss) ==
    IF wss = <<>> THEN 0
    ELSE Cardinality({k \in 1..Len(Head(wss).rows) : Head(wss).rows[k] # Headers})
         + StudentRows(Tail(wss))

WithinBounds(ss) ==
    /\ \A t \in TypeSet : Len(ss[t]) <= MaxSheets
    /\ StudentRows(ss["IELTS"] \o ss["Aptis"]) <= MaxStudents

Sessions == {1, 2}

Idle == [op |-> "none", name |-> Empty, type |-> "none", student |-> "none",
         reach |-> AllReach, fail |-> "none", outcome |-> "none", target |-> NoTarget,
         search_query |-> Empty, search_type |-> "none", batch_filter |-> AllBatches,
         type_filter |-> AllTypes, year_filter |-> AllYears, found |-> <<>>,
         unread |-> {}, page |-> "none", path |-> "none", client |-> NoClient,
         status |-> "none", now |-> 0, prev |-> "none", age |-> -1,
         missing |-> {}, selected |-> NoTarget, counts |-> <<>>]

NoJob == [name |-> Empty, type |-> "none", idx |-> 0, outcome |-> "none"]

Init ==
    /\ sheets = [t \in TypeSet |-> <<>>]
    /\ last = Idle
    /\ pc = [s \in Sessions |-> "idle"]
    /\ job = [s \in Sessions |-> NoJob]
    /\ raced = FALSE
    /\ session = NoSession
    /\ clock = 0

\* One script run handles one submit and draws its outcome; the page drawn
\* again (st.rerun, navigate_to) shows none of it. A form is submitted from a
\* page drawn without an outcome.
Rerun ==
    /\ last # Idle
    /\ last' = Idle
    /\ UNCHANGED <<sheets, pc, job, raced, session, clock>>

\* the faults of one script run: at most one remote call is refused
Faults ==
    {[reach |-> r, fail |-> "none"] : r \in ReachSet}
    \cup {[reach |-> AllReach, fail |-> f] : f \in CreateFails}

\* Create Batch page, form submitted with a name of names (lines 520-582)
CreateBatchOf(names) ==
    /\ last = Idle
    /\ \E name \in names, type \in TypeSet, env \in Faults :
        LET r == create_batch(sheets, name, type, env.reach, env.fail)
        IN /\ WithinBounds(r.sheets)
           /\ sheets' = r.sheets
           /\ last' = [Idle EXCEPT !.op = "create", !.name = name, !.type = type,
                                   !.reach = env.reach, !.fail = env.fail,
                                   !.outcome = r.outcome]
           /\ UNCHANGED <<pc, job, raced, session, clock>>

CreateBatch == CreateBatchOf(BatchNames)

\* lines 623-638: the batch whose option is selected, none when the selected
\* type has no batch
Selected(ss, reach, type, choice) ==
    LET available == OfType(get_all_batch_names(ss, reach), type)
    IN IF available = <<>> THEN NoTarget
       ELSE [type |-> available[choice].type, idx |-> available[choice].idx]

\* Add Student page, form submitted (lines 597-753)
AddStudent ==
    /\ last = Idle
    /\ \E st \in Students, type \in TypeSet, env \in Faults, choice \in 1..MaxSheets :
        LET n == Len(OfType(get_all_batch_names(sheets, env.reach), type))
            r == add_student(sheets, st, type, choice, env.reach, env.fail = "add")
        IN /\ choice <= n \/ (n = 0 /\ choice = 1)
           /\ env.fail \in {"none", "add"}
           /\ WithinBounds(r.sheets)
           /\ sheets' = r.sheets
           /\ last' = [Idle EXCEPT !.op = "append", !.name = r.batch_name,
                                   !.type = type, !.student = st.tag,
                                   !.reach = env.reach, !.fail = env.fail,
                                   !.outcome = r.outcome, !.target = r.target,
                                   !.missing = r.missing,
                                   !.selected = Selected(sheets, env.reach, type, choice)]
           /\ UNCHANGED <<pc, job, raced, session, clock>>

\* the faults of one search: a spreadsheet that is not reached, or reads
\* (get_all_records, line 810) that the remote service refuses for the
\* worksheets of the spreadsheets of unread
ReadFaults ==
    {[reach |-> r, unread |-> {}] : r \in ReachSet}
    \cup {[reach |-> AllReach, unread |-> u] : u \in (SUBSET TypeSet) \ {{}}}

\* lines 805-822: a batch whose read raises is passed over (except: continue),
\* as are the batches of a spreadsheet that is not reached
Readable(reach, unread) == [t \in TypeSet |-> reach[t] /\ t \notin unread]

\* Find Student page, Search pressed (lines 780-863)
FindStudent ==
    /\ last = Idle
    /\ \E q \in Queries, st \in SearchTypes, env \in ReadFaults, f \in SearchFilters :
        /\ last' = [Idle EXCEPT !.op = "search", !.reach = env.reach,
                                !.unread = env.unread,
                                !.search_query = q, !.search_type = st,
                                !.batch_filter = f.batch, !.type_filter = f.type,
                                !.year_filter = f.year, !.outcome = "shown",
                                !.found = search(sheets, Readable(env.reach, env.unread),
                                                 q, st, f.batch, f.type, f.year)]
        /\ UNCHANGED <<sheets, pc, job, raced, session, clock>>

\* lines 953-960: the student count of each batch of the directory
BatchCounts(ss, batches) ==
    [j \in 1..Len(batches) |-> get_student_count(ss[batches[j].type][batches[j].idx])]

\* View Batches page (lines 938-960): the directory is read and shown
ListBatches ==
    /\ last = Idle
    /\ \E reach \in ReachSet :
        /\ last' = [Idle EXCEPT !.op = "list", !.reach = reach, !.outcome = "shown",
                                !.found = get_all_batch_names(sheets, reach),
                                !.counts = BatchCounts(sheets, get_all_batch_names(sheets, reach))]
        /\ UNCHANGED <<sheets, pc, job, raced, session, clock>>

\* the script run l has drawn an st.error: get_spreadsheet draws one for each
\* spreadsheet it cannot open (lines 127-153), the handlers draw theirs at
\* lines 522, 530, 582, 690, 701 and 753; a batch that the search cannot
\* read draws none (lines 821-822)
ErrorShown(l) ==
    \/ /\ l.op = "create"
       /\ \/ l.outcome \in {"empty_name", "duplicate", "failed"}
          \/ l.name # Empty /\ \E t \in TypeSet : ~l.reach[t]
    \/ /\ l.op = "append"
       /\ \/ l.outcome \in {"missing_fields", "batch_not_found", "failed"}
          \/ \E t \in TypeSet : ~l.reach[t]
    \/ /\ l.op \in {"search", "list"}
       /\ \E t \in TypeSet : ~l.reach[t]

Next == CreateBatch \/ AddStudent \/ FindStudent \/ ListBatches \/ Rerun

Spec == Init /\ [][Next]_vars

\* ------------------------------------------------ searches under filters
\* Find Student page, Search pressed with any choice of the three filters,
\* every spreadsheet reached and read (lines 780-863)
FindFiltered ==
    /\ last = Idle
    /\ \E q \in {Empty, Ann.name}, bf \in BatchFilters, tf \in TypeFilters,
          yf \in YearFilters :
        /\ last' = [Idle EXCEPT !.op = "search", !.search_query = q,
                                !.search_type = "All Fields",
                                !.batch_filter = bf, !.type_filter = tf,
                                !.year_filter = yf, !.outcome = "shown",
                                !.found = search(sheets, AllReach, q, "All Fields",
                                                 bf, tf, yf)]
        /\ UNCHANGED <<sheets, pc, job, raced, session, clock>>

NextFilters == CreateBatch \/ AddStudent \/ FindFiltered \/ Rerun

SpecFilters == Init /\ [][NextFilters]_vars

\* ------------------------------------------- create, list, append, search
\* One user's run of the four pages in a row, no remote call refused, from
\* any store without a batch G1 that creates of another batch and appends to
\* it have made. pc[1] is how far the run has come, job[1] the worksheet the
\* record went to.

\* Create Batch: name G1, type IELTS (lines 520-582)
ScenarioCreate ==
    /\ pc[1] = "idle" /\ last = Idle
    /\ G \notin Titles(sheets, "IELTS") \cup Titles(sheets, "Aptis")
    /\ LET r == create_batch(sheets, G, "IELTS", AllReach, "none")
       IN /\ sheets' = r.sheets
          /\ last' = [Idle EXCEPT !.op = "create", !.name = G, !.type = "IELTS",
                                  !.outcome = r.outcome]
    /\ pc' = [pc EXCEPT ![1] = "created"]
    /\ UNCHANGED <<job, raced, session, clock>>

\* View Batches (lines 938-960)
ScenarioList ==
    /\ pc[1] = "created"
    /\ last' = [Idle EXCEPT !.op = "list", !.outcome = "shown",
                            !.found = get_all_batch_names(sheets, AllReach)]
    /\ pc' = [pc EXCEPT ![1] = "listed"]
    /\ UNCHANGED <<sheets, job, raced, session, clock>>

\* Add Student: type IELTS, the option of batch G1, student Ann (lines 597-753)
ScenarioAppend ==
    /\ pc[1] = "listed"
    /\ \E choice \in 1..Len(OfType(get_all_batch_names(sheets, AllReach), "IELTS")) :
        LET r == add_student(sheets, Ann, "IELTS", choice, AllReach, FALSE)
        IN /\ OfType(get_all_batch_names(sheets, AllReach), "IELTS")[choice].name = G
           /\ sheets' = r.sheets
           /\ last' = [Idle EXCEPT !.op = "append", !.name = r.batch_name,
                                   !.type = "IELTS", !.student = Ann.tag,
                                   !.outcome = r.outcome, !.target = r.target]
           /\ job' = [job EXCEPT ![1] = [NoJob EXCEPT !.name = r.batch_name,
                                                      !.type = r.target.type,
                                                      !.idx = r.target.idx,
                                                      !.outcome = r.outcome]]
    /\ pc' = [pc EXCEPT ![1] = "appended"]
    /\ UNCHANGED <<raced, session, clock>>

\* Find Student: query "Ann", All Fields, no filter (lines 780-863)
ScenarioSearch ==
    /\ pc[1] = "appended"
    /\ last' = [Idle EXCEPT !.op = "search", !.search_query = Ann.name,
                            !.search_type = "All Fields", !.outcome = "shown",
                            !.found = search(sheets, AllReach, Ann.name, "All Fields",
                                             AllBatches, AllTypes, AllYears)]
    /\ pc' = [pc EXCEPT ![1] = "searched"]
    /\ UNCHANGED <<sheets, job, raced, session, clock>>

NextScenario ==
    \/ pc[1] = "idle" /\ (CreateBatchOf({H, GParen}) \/ AddStudent \/ Rerun)
    \/ ScenarioCreate
    \/ ScenarioList
    \/ ScenarioAppend
    \/ ScenarioSearch

SpecScenario == Init /\ [][NextScenario]_vars

\* ------------------------------------------------ the session's client
\* One browser session. Every script run begins with initialize_google_sheets
\* (line 104) and then draws the page; the clock moves between script runs.
\* last holds, of the last script run: the path initialize_google_sheets
\* took, the client it returned, the connection status it left, the time.

Pages == {"Home", "Create Batch", "View Batches"}

\* line 45: the seconds since the stored time, -1 when none is stored
Age(s, now) == IF s.last_update = NoTime THEN -1 ELSE now - s.last_update

\* time passes
Tick ==
    /\ clock + TickStep <= MaxClock
    /\ clock' = clock + TickStep
    /\ UNCHANGED <<sheets, last, pc, job, raced, session>>

\* a script run of a page (lines 104, 1162-1182): Home, Create Batch with the
\* form submitted (lines 490, 520-582), or View Batches (lines 938-960)
ScriptRun ==
    \E env \in AuthEnvs, page \in Pages, name \in {G, GParen}, type \in TypeSet :
        LET r == initialize_google_sheets(session, clock, env)
            c == create_batch(sheets, name, type, AllReach, "none")
            run == [Idle EXCEPT !.op = "run", !.page = page, !.path = r.path,
                                !.client = r.gc,
                                !.status = r.session.connection_status,
                                !.now = clock, !.prev = last.op,
                                !.age = Age(session, clock)]
        IN /\ session' = r.session
           /\ IF page = "Home"
              THEN /\ last' = [run EXCEPT !.outcome = "shown"]
                   /\ sheets' = sheets
              ELSE IF r.gc = NoClient
              THEN /\ last' = [run EXCEPT !.outcome = "not_connected"]
                   /\ sheets' = sheets
              ELSE IF page = "View Batches"
              THEN /\ last' = [run EXCEPT !.outcome = "shown",
                                          !.found = get_all_batch_names(sheets, AllReach)]
                   /\ sheets' = sheets
              ELSE /\ WithinBounds(c.sheets)
                   /\ last' = [run EXCEPT !.name = name, !.type = type,
                                          !.outcome = c.outcome]
                   /\ sheets' = c.sheets
           /\ UNCHANGED <<pc, job, raced, clock>>

\* a script run in which Refresh Connection is pressed (lines 104, 294-297);
\* the st.rerun() that ends it starts the next script run
RefreshConnection ==
    \E env \in AuthEnvs :
        LET r == initialize_google_sheets(session, clock, env)
        IN /\ session' = refresh_connection(r.session)
           /\ last' = [Idle EXCEPT !.op = "refresh", !.path = r.path,
                                   !.client = r.gc,
                                   !.status = r.session.connection_status,
                                   !.now = clock, !.outcome = "rerun",
                                   !.prev = last.op, !.age = Age(session, clock)]
           /\ UNCHANGED <<sheets, pc, job, raced, clock>>

NextAuth == Tick \/ ScriptRun \/ RefreshConnection

SpecAuth == Init /\ [][NextAuth]_vars

\* ------------------------------------------------- two concurrent creators
\* Two sessions run show_create_batch_page against the same spreadsheets. A
\* session's submit is three remote steps: the directory read of the
\* duplicate check, add_worksheet, and the header write.

\* lines 520-531: the submit up to the duplicate check
ConcCheck(s) ==
    /\ pc[s] = "idle"
    /\ \E name \in BatchNames \ {Empty}, type \in TypeSet :
        IF DuplicateName(sheets, name, AllReach)
        THEN /\ job' = [job EXCEPT ![s] = [NoJob EXCEPT !.name = name, !.type = type,
                                                       !.outcome = "duplicate"]]
             /\ UNCHANGED <<pc, raced>>
        ELSE /\ job' = [job EXCEPT ![s] = [NoJob EXCEPT !.name = name, !.type = type,
                                                       !.outcome = "checked"]]
             /\ pc' = [pc EXCEPT ![s] = "add"]
             /\ raced' = \E o \in Sessions \ {s} : pc[o] = "add" /\ job[o].name = name
    /\ UNCHANGED <<sheets, last, session, clock>>

\* lines 536-543
ConcAdd(s) ==
    /\ pc[s] = "add"
    /\ LET r == InsertWorksheet(sheets, job[s].name, job[s].type, AllReach, "none")
       IN /\ WithinBounds(r.sheets)
          /\ sheets' = r.sheets
          /\ IF r.outcome = "added"
             THEN /\ pc' = [pc EXCEPT ![s] = "header"]
                  /\ job' = [job EXCEPT ![s].idx = Len(r.sheets[job[s].type]),
                                        ![s].outcome = "added"]
             ELSE /\ pc' = [pc EXCEPT ![s] = "idle"]
                  /\ job' = [job EXCEPT ![s].outcome = r.outcome]
    /\ UNCHANGED <<last, raced, session, clock>>

\* lines 545-558
ConcHeader(s) ==
    /\ pc[s] = "header"
    /\ LET r == WriteHeader(sheets, job[s].type, job[s].idx, "none")
       IN /\ sheets' = r.sheets
          /\ job' = [job EXCEPT ![s].outcome = r.outcome]
    /\ pc' = [pc EXCEPT ![s] = "idle"]
    /\ UNCHANGED <<last, raced, session, clock>>

NextConc == \E s \in Sessions : ConcCheck(s) \/ ConcAdd(s) \/ ConcHeader(s)

SpecConc == Init /\ [][NextConc]_vars

\* ================================================================== claims
\* titles of the worksheets of both spreadsheets
AllTitles(ss) == Titles(ss, "IELTS") \cup Titles(ss, "Aptis")

\* get_all_batch_names, every spreadsheet reached, holds {name, type}
Listed(ss, name, type) ==
    \E i \in 1..Len(get_all_batch_names(ss, AllReach)) :
        /\ get_all_batch_names(ss, AllReach)[i].name = name
        /\ get_all_batch_names(ss, AllReach)[i].type = type

\* the worksheets of both spreadsheets that have this title
Holders(ss, name) ==
    {<<t, i>> \in TypeSet \X (1..(MaxSheets + 1)) :
        i <= Len(ss[t]) /\ ss[t][i].title = name}

\* some title is held by more than one worksheet
Collision(ss) == \E name \in AllTitles(ss) : Cardinality(Holders(ss, name)) > 1

\* C1 (as stated): a create_batch of a (non-empty) name that neither spreadsheet holds
\* succeeds, and the next list_batches holds that name with the chosen type.
C1_CreateAlwaysSucceeds ==
    [][(last'.op = "create" /\ last'.name # Empty
        /\ last'.name \notin AllTitles(sheets))
        => (last'.outcome = "created"
            /\ Listed(sheets', last'.name, last'.type))]_vars

\* C1 (amended): a create_batch of a non-empty name that neither spreadsheet
\* holds is never refused as a duplicate or as a missing name; it succeeds
\* when the spreadsheet of the chosen type is reached and no remote write is
\* refused; and whenever it succeeds, the next list_batches that reaches that
\* spreadsheet holds the name with the chosen type.
C1_CreateSucceedsUnlessRemoteFails ==
    [][(last'.op = "create" /\ last'.name # Empty
        /\ last'.name \notin AllTitles(sheets))
        => /\ last'.outcome \in {"created", "unreachable", "failed"}
           /\ (last'.reach[last'.type] /\ last'.fail = "none")
                => last'.outcome = "created"
           /\ last'.outcome = "created"
                => /\ Listed(sheets', last'.name, last'.type)
                   /\ ~Listed(sheets, last'.name, last'.type)]_vars

C1_Witness ==
    /\ last.op = "create" /\ last.outcome = "created"
    /\ Listed(sheets, last.name, last.type)

\* C2: a create_batch of a name that a worksheet of either spreadsheet has
\* fails with DuplicateName, and no worksheet is added to either spreadsheet.
C2_DuplicateRefused ==
    [][(last'.op = "create" /\ last'.name \in AllTitles(sheets))
        => (last'.outcome = "duplicate" /\ sheets' = sheets)]_vars

\* C3: with create_batch run one submit at a time, no title is held by more
\* than one worksheet of the two spreadsheets together.
C3_NamesUnique == ~Collision(sheets)

\* C4: the duplicate check and the insertion are two steps. A creator that
\* has passed the check adds its worksheet whatever the other spreadsheet
\* has come to hold since, and nothing removes a worksheet of a collision.
C4_CheckThenInsertNotAtomic ==
    [][/\ \A s \in Sessions :
            (pc[s] = "add" /\ pc'[s] # "add"
             /\ job[s].name \notin Titles(sheets, job[s].type))
            => job[s].name \in Titles(sheets', job[s].type)
       /\ \A name \in AllTitles(sheets) :
            Holders(sheets, name) \subseteq Holders(sheets', name)]_vars

\* both creators passed the check before either inserted, both report
\* success, and the name is now held by two worksheets
C4_Witness ==
    /\ raced
    /\ \A s \in Sessions : pc[s] = "idle" /\ job[s].outcome = "created"
    /\ job[1].name = job[2].name
    /\ Cardinality(Holders(sheets, job[1].name)) = 2

StudentOf(tag) == CHOOSE st \in Students : st.tag = tag

\* the four student fields of the form are filled in
Filled(tag) ==
    /\ tag \in {st.tag : st \in Students}
    /\ StudentOf(tag).name # Empty /\ StudentOf(tag).id # Empty
    /\ StudentOf(tag).contact # Empty /\ StudentOf(tag).email # Empty

\* C5: an append_student whose batch name is the title of no worksheet of
\* either spreadsheet fails with BatchNotFound and appends no row (the
\* submit having passed the required-field validation).
C5_AbsentBatchNotFound ==
    [][(last'.op = "append" /\ Filled(last'.student) /\ last'.name # Empty
        /\ last'.name \notin AllTitles(sheets))
        => (last'.outcome = "batch_not_found" /\ sheets' = sheets)]_vars

C5_Witness ==
    /\ last.op = "append" /\ last.outcome = "batch_not_found"
    /\ last.name \notin AllTitles(sheets)
    /\ AllTitles(sheets) # {}

\* the worksheet of the spreadsheet t with this title
SheetOf(ss, t, name) == CHOOSE i \in 1..Len(ss[t]) : ss[t][i].title = name

\* C6: an append_student for a batch name under the declared type T appends
\* its row to the worksheet of that name in the spreadsheet of T and to no
\* other; with no such worksheet in the spreadsheet of T it fails with
\* BatchNotFound, also when the other spreadsheet has one.
C6_RowGoesToDeclaredType ==
    [][(last'.op = "append" /\ Filled(last'.student) /\ last'.name # Empty
        /\ last'.reach = AllReach /\ last'.fail = "none")
        => IF last'.name \in Titles(sheets, last'.type)
           THEN /\ last'.outcome = "added"
                /\ last'.target.type = last'.type
                /\ sheets'[OtherType(last'.type)] = sheets[OtherType(last'.type)]
                /\ \A i \in 1..Len(sheets[last'.type]) :
                      i # SheetOf(sheets, last'.type, last'.name)
                      => sheets'[last'.type][i] = sheets[last'.type][i]
           ELSE last'.outcome = "batch_not_found" /\ sheets' = sheets]_vars

\* ---- search claims: what the spreadsheets hold, read without the code
\* q is in t, letter case ignored, every character taken literally
ContainsCI(t, q) ==
    \E i \in 1..(Len(t) - Len(q) + 1) :
        \A j \in 1..Len(q) : LowerChar(t[i + j - 1]) = LowerChar(q[j])

\* the rows after row 1 of every worksheet: <<spreadsheet, worksheet, row>>
DataRows(ss) ==
    {p \in TypeSet \X (1..(MaxSheets + 1)) \X (2..(MaxStudents + 2)) :
        p[2] <= Len(ss[p[1]]) /\ p[3] <= Len(ss[p[1]][p[2]].rows)}

RowAt(ss, p) == ss[p[1]][p[2]].rows[p[3]]

\* where a record of a search comes from
Place(r) == <<r.Batch_Type, r.idx, r.row + 1>>

Places(found) == {Place(found[j]) : j \in 1..Len(found)}

NoFilters(l) ==
    l.batch_filter = AllBatches /\ l.type_filter = AllTypes /\ l.year_filter = AllYears

\* C7: a record that append_student has appended is returned by the next
\* search with an empty query, every field equal to the value submitted.
C7_RoundTripVerbatim ==
    (last.op = "append" /\ last.outcome = "added")
    => LET st == StudentOf(last.student)
           ws == sheets[last.target.type][last.target.idx]
           res == search(sheets, AllReach, Empty, "All Fields",
                         AllBatches, AllTypes, AllYears)
       IN \E j \in 1..Len(res) :
            /\ Place(res[j]) = <<last.target.type, last.target.idx, Len(ws.rows)>>
            /\ res[j].vals[Col("Student ID")].txt = st.id
            /\ res[j].vals[Col("Full Name")].txt = st.name
            /\ res[j].vals[Col("Contact Number")].txt = st.contact
            /\ res[j].vals[Col("Email Address")].txt = st.email
            /\ res[j].vals[Col("Batch")].txt = last.name
            /\ res[j].vals[Col("Notes")].txt = st.notes

NonBlank(cell) ==
    /\ cell # Empty
    /\ \E i \in 1..Len(cell) : cell[i] # "0"

StudentPlaces(ss) ==
    {p \in TypeSet \X (1..(MaxSheets + 1)) \X (1..(MaxStudents + 2)) :
        /\ p[2] <= Len(ss[p[1]]) /\ p[3] <= Len(ss[p[1]][p[2]].rows)
        /\ RowAt(ss, p) # Headers}

\* C9: a search whose query is in no field of any stored student record
\* returns an empty sequence, whatever the filters.
C9_NoMatchReturnsNothing ==
    (/\ last.op = "search" /\ last.search_query # Empty
     /\ \A p \in StudentPlaces(sheets) : \A c \in 1..Len(Headers) :
            ~ContainsCI(RowAt(sheets, p)[c], last.search_query))
    => last.found = <<>>

\* the stored fields a search reads
SearchedCells(row, search_type) ==
    IF search_type = "All Fields" THEN {row[c] : c \in 1..Len(Headers)}
    ELSE IF search_type = "Name Only" THEN {row[3]}
    ELSE IF search_type = "ID Only" THEN {row[2]}
    ELSE IF search_type = "Email Only" THEN {row[5]}
    ELSE {row[4]}

\* C10: with a non-empty query, a record is retained if and only if a field
\* of the searched set holds the query, letter case ignored: every stored
\* field in All-Fields mode, the one named field in a field-scoped mode.
C10_RetainedIffFieldContainsQuery ==
    (/\ last.op = "search" /\ last.search_query # Empty
     /\ NoFilters(last) /\ last.reach = AllReach /\ last.unread = {})
    => \A p \in DataRows(sheets) :
          sheets[p[1]][p[2]].rows[1] = Headers
          => (p \in Places(last.found)
              <=> \E cell \in SearchedCells(RowAt(sheets, p), last.search_type) :
                      ContainsCI(cell, last.search_query))

\* a stored row, read at its place, satisfies the filters of l
Satisfies(ss, p, l) ==
    /\ l.batch_filter = AllBatches
       \/ (ss[p[1]][p[2]].title = l.batch_filter
           /\ RowAt(ss, p)[Col("Batch")] = l.batch_filter)
    /\ l.type_filter = AllTypes \/ p[1] = l.type_filter
    /\ l.year_filter = AllYears \/ RowAt(ss, p)[Col("Year")] = l.year_filter

\* C11: every record a search returns satisfies every selected filter (batch
\* name, batch type, year, each unless "All"); the records returned are those
\* of the same search without filters that satisfy the filters, so no record
\* a filter rejects is returned because it matches the query.
C11_ReturnedSatisfyFilters ==
    last.op = "search"
    => /\ \A j \in 1..Len(last.found) : Satisfies(sheets, Place(last.found[j]), last)
       /\ Places(last.found) =
            {p \in Places(search(sheets, Readable(last.reach, last.unread),
                                 last.search_query, last.search_type,
                                 AllBatches, AllTypes, AllYears)) :
                Satisfies(sheets, p, last)}

\* a record is returned under a batch, a type and a year filter and a query
C11_Witness ==
    /\ last.op = "search" /\ last.search_query # Empty
    /\ last.batch_filter = G /\ last.type_filter = "Aptis"
    /\ last.year_filter = YearNow
    /\ Len(last.found) = 1

\* C12 (as stated): from a store with no batch G1, create_batch(G1, IELTS)
\* succeeds; the next list_batches has {G1, IELTS}; append_student of Ann, S1
\* to G1 succeeds; the following search("Ann") returns exactly one record, and
\* its id is S1.
C12_ScenarioExactlyOne ==
    /\ pc[1] = "created" => last.outcome = "created"
    /\ pc[1] = "listed"
        => \E i \in 1..Len(last.found) :
              last.found[i].name = G /\ last.found[i].type = "IELTS"
    /\ pc[1] = "appended" => last.outcome = "added"
    /\ pc[1] = "searched"
        => /\ Len(last.found) = 1
           /\ last.found[1].vals[Col("Student ID")].txt = Ann.id

\* the rows, other than the one at place p, that hold "Ann" in some cell
OtherAnns(ss, p) ==
    {o \in DataRows(ss) \ {p} :
        \E c \in 1..Len(Headers) : ContainsCI(RowAt(ss, o)[c], Ann.name)}

\* C12 (amended): from a store with no batch G1, no remote call refused:
\* create_batch(G1, IELTS) succeeds; the next list_batches has {G1, IELTS};
\* append_student of Ann, S1 to G1 succeeds and writes to the worksheet G1 of
\* the IELTS spreadsheet; the following search("Ann") returns the record of
\* that row with id S1, and returns that record alone when no other stored
\* row holds "Ann".
C12_ScenarioOnStoreWithoutAnn ==
    /\ pc[1] = "created" => last.outcome = "created"
    /\ pc[1] = "listed"
        => \E i \in 1..Len(last.found) :
              last.found[i].name = G /\ last.found[i].type = "IELTS"
    /\ pc[1] = "appended"
        => /\ last.outcome = "added"
           /\ last.target.type = "IELTS"
           /\ sheets["IELTS"][last.target.idx].title = G
    /\ pc[1] = "searched"
        => LET p == <<job[1].type, job[1].idx, Len(sheets[job[1].type][job[1].idx].rows)>>
           IN /\ \E j \in 1..Len(last.found) :
                    /\ Place(last.found[j]) = p
                    /\ last.found[j].vals[Col("Student ID")].txt = Ann.id
              /\ OtherAnns(sheets, p) = {} => Len(last.found) = 1

\* the run has ended with the one record, beside another student's record
C12_Witness ==
    /\ pc[1] = "searched"
    /\ Len(last.found) = 1
    /\ last.found[1].vals[Col("Student ID")].txt = Ann.id
    /\ Cardinality(DataRows(sheets)) = 2

\* C13: when one spreadsheet is not reached and the other is, list_batches
\* returns (it does not raise) exactly one descriptor for every worksheet of
\* the spreadsheet that is reached and none for the other.
C13_ListFailsSoft ==
    \A t \in TypeSet :
        (last.op = "list" /\ last.reach[t] /\ ~last.reach[OtherType(t)])
        => /\ last.outcome = "shown"
           /\ \A i \in 1..Len(sheets[t]) :
                 Cardinality({j \in 1..Len(last.found) :
                                 /\ last.found[j].type = t
                                 /\ last.found[j].idx = i
                                 /\ last.found[j].name = sheets[t][i].title}) = 1
           /\ Len(last.found) = Len(sheets[t])
           /\ \A j \in 1..Len(last.found) : last.found[j].type # OtherType(t)

\* the IELTS spreadsheet has a worksheet and is not reached; the worksheets
\* of the Aptis spreadsheet are listed
C13_Witness ==
    /\ last.op = "list" /\ ~last.reach["IELTS"] /\ last.reach["Aptis"]
    /\ sheets["IELTS"] # <<>>
    /\ Len(last.found) >= 1

\* a remote call of the script run l was refused: a spreadsheet was not
\* opened, a write was refused, or the rows of a worksheet were not read
RemoteFailure(ss, l) ==
    \/ /\ l.op = "create" /\ l.name # Empty
       /\ (l.outcome = "failed" \/ \E t \in TypeSet : ~l.reach[t])
    \/ /\ l.op = "append"
       /\ (l.outcome = "failed" \/ \E t \in TypeSet : ~l.reach[t])
    \/ /\ l.op = "search"
       /\ \/ \E t \in TypeSet : ~l.reach[t]
          \/ \E t \in l.unread : ss[t] # <<>>
    \/ /\ l.op = "list"
       /\ \E t \in TypeSet : ~l.reach[t]

\* C14: a failure of a remote call of create_batch, append_student, search or
\* list_batches ends the interaction with an error message shown to the
\* user; the handler returns (the failure does not leave it), and a refused
\* write is not made again: the store is as the refused call left it.
C14_FailureShowsError ==
    RemoteFailure(sheets, last)
    => /\ ErrorShown(last)
       /\ last.outcome \in {"duplicate", "unreachable", "failed", "created", "added",
                            "no_batches", "missing_fields", "batch_not_found", "shown"}

\* C15: every worksheet that create_batch has added has the header row as its
\* row 1, written once, and every later row is one student record; no such
\* worksheet is without its header row, also after a create_batch of which a
\* step was refused once the worksheet was added.
C15_HeaderIsRowOne ==
    \A t \in TypeSet : \A i \in 1..Len(sheets[t]) :
        LET rows == sheets[t][i].rows
        IN /\ rows # <<>>
           /\ rows[1] = Headers
           /\ \A k \in 2..Len(rows) : rows[k] # Headers /\ Len(rows[k]) = Len(Headers)

\* C16: the store is append-only. In every step no worksheet is removed or
\* renamed and no row is changed or deleted: each worksheet is where it was,
\* with its title, and its rows before the step are a prefix of its rows
\* after it. A search, a list and a page drawn again leave both spreadsheets
\* as they are.
C16_AppendOnly ==
    [][/\ \A t \in TypeSet :
            /\ Len(sheets[t]) <= Len(sheets'[t])
            /\ \A i \in 1..Len(sheets[t]) :
                  /\ sheets'[t][i].title = sheets[t][i].title
                  /\ Len(sheets[t][i].rows) <= Len(sheets'[t][i].rows)
                  /\ SubSeq(sheets'[t][i].rows, 1, Len(sheets[t][i].rows))
                        = sheets[t][i].rows
       /\ last'.op \in {"search", "list", "none"} => sheets' = sheets]_vars

\* a student record has been appended below the header row of a worksheet
\* that is not the last one of its spreadsheet
C16_Witness ==
    /\ last.op = "append" /\ last.outcome = "added"
    /\ Len(sheets[last.target.type][last.target.idx].rows) = 2
    /\ last.target.idx < Len(sheets[last.target.type])

\* C17: the row append_student writes has one value for each column of the
\* header row, each under its column: the student ID under "Student ID", the
\* name under "Full Name", the contact under "Contact Number", the email
\* under "Email Address", the batch name under "Batch", and the time slot of
\* the batch under "Time".
C17_ValuesUnderTheirColumns ==
    (last.op = "append" /\ last.outcome = "added")
    => LET st == StudentOf(last.student)
           rows == sheets[last.target.type][last.target.idx].rows
           row == rows[Len(rows)]
       IN /\ Len(row) = Len(Headers)
          /\ row[Col("Student ID")] = st.id
          /\ row[Col("Full Name")] = st.name
          /\ row[Col("Contact Number")] = st.contact
          /\ row[Col("Email Address")] = st.email
          /\ row[Col("Batch")] = last.name
          /\ row[Col("Time")] \in TimeSlots

\* the number of worksheets list_batches takes from the spreadsheet t
Taken(ss, reach, t) == IF reach[t] THEN Len(ss[t]) ELSE 0

\* C19: get_all_batch_names returns one descriptor per worksheet of the
\* spreadsheets that are reached, in this order: the worksheets of the IELTS
\* spreadsheet in the order the spreadsheet has them, then those of the Aptis
\* spreadsheet in the order it has them; the type of a descriptor is the
\* type of its spreadsheet.
C19_IeltsThenAptis ==
    last.op = "list"
    => LET n1 == Taken(sheets, last.reach, "IELTS")
           n2 == Taken(sheets, last.reach, "Aptis")
       IN /\ Len(last.found) = n1 + n2
          /\ \A i \in 1..n1 :
                /\ last.found[i].name = sheets["IELTS"][i].title
                /\ last.found[i].type = "IELTS"
                /\ last.found[i].idx = i
          /\ \A i \in 1..n2 :
                /\ last.found[n1 + i].name = sheets["Aptis"][i].title
                /\ last.found[n1 + i].type = "Aptis"
                /\ last.found[n1 + i].idx = i

\* both spreadsheets are listed, one of them with two worksheets
C19_Witness ==
    /\ last.op = "list" /\ last.reach = AllReach
    /\ Len(sheets["IELTS"]) = 2 /\ Len(sheets["Aptis"]) >= 1
    /\ Len(last.found) >= 3

\* C18: initialize_google_sheets returns the client of the session, without
\* authenticating again, exactly when the session holds a client that was
\* stored less than 300 seconds before the call; otherwise it authenticates,
\* and only an authentication that succeeds stores a new client and sets the
\* time again. No batch data is kept: a list_batches shows the worksheet
\* titles the remote store has at that script run.
C18_ReuseWithinWindow ==
    [][(last'.op \in {"run", "refresh"} /\ clock' = clock)
        => LET cached == session.gc # NoClient /\ clock - session.gc.at < ReuseWindow
           IN /\ (last'.path = "reused") <=> cached
              /\ cached
                  => /\ last'.client = session.gc
                     /\ last'.op = "run" => session' = session
              /\ (~cached /\ last'.path = "authorized")
                  => /\ last'.client = [at |-> clock]
                     /\ last'.op = "run"
                        => (session'.gc = last'.client /\ session'.last_update = clock)
              /\ (~cached /\ last'.path # "authorized")
                  => /\ last'.client = NoClient
                     /\ last'.op = "run"
                        => /\ session'.gc = session.gc
                           /\ session'.last_update = session.last_update
              /\ (last'.page = "View Batches" /\ last'.client # NoClient)
                  => last'.found = Descriptors(sheets, "IELTS") \o Descriptors(sheets, "Aptis")]_vars

\* a client stored earlier is returned again, within the window, to a View
\* Batches run that lists a batch
C18_Witness ==
    /\ last.op = "run" /\ last.path = "reused"
    /\ last.now > last.client.at
    /\ last.page = "View Batches" /\ Len(last.found) >= 1

\* C20: at the end of initialize_google_sheets the connection status is
\* "connected" exactly when it returned a client; in every state of the
\* session a status "connected" comes with a stored client; and a client
\* that is returned was stored less than 300 seconds before (a failed
\* authentication after the window, and Refresh Connection, leave neither a
\* status "connected" nor a stale client in use).
C20_ConnectedIffClient ==
    /\ last.op \in {"run", "refresh"}
        => /\ (last.status = "connected") <=> (last.client # NoClient)
           /\ last.client # NoClient => last.now - last.client.at < ReuseWindow
    /\ session.connection_status = "connected" => session.gc # NoClient

\* an authentication has failed after the window ran out: the session still
\* stores the old client, the status is not "connected", no client returned
C20_Witness ==
    /\ last.op = "run" /\ last.path = "test_failed"
    /\ session.gc # NoClient /\ last.now - session.gc.at >= ReuseWindow
    /\ session.connection_status = "test_failed"
    /\ last.client = NoClient

\* C21: the execution of initialize_google_sheets that follows a Refresh
\* Connection authenticates again and does not return the stored client, also
\* when the stored time is less than 300 seconds old: Refresh Connection has
\* cleared the client of the session and set the status "disconnected", and
\* has left the stored time as it was.
C21_RefreshForcesAuthentication ==
    /\ last.op = "refresh"
        => /\ session.gc = NoClient
           /\ session.connection_status = "disconnected"
           /\ last.client # NoClient => session.last_update = last.client.at
    /\ (last.op \in {"run", "refresh"} /\ last.prev = "refresh")
        => /\ last.path \in {"authorized", "no_credentials", "error", "test_failed"}
           /\ last.path = "authorized" => last.client = [at |-> last.now]

\* the script run after a Refresh Connection found a stored time less than
\* 300 seconds old, and authenticated
C21_Witness ==
    /\ last.op = "run" /\ last.prev = "refresh"
    /\ last.age >= 0 /\ last.age < ReuseWindow
    /\ last.path = "authorized"

\* the required fields of the submit l that are empty
EmptyFields(l) ==
    LET st == StudentOf(l.student)
    IN (IF st.name = Empty THEN {"Full Name"} ELSE {})
       \cup (IF st.id = Empty THEN {"Student ID"} ELSE {})
       \cup (IF st.contact = Empty THEN {"Contact Number"} ELSE {})
       \cup (IF st.email = Empty THEN {"Email Address"} ELSE {})
       \cup (IF l.name = Empty THEN {"Batch"} ELSE {})

\* C22: an Add Student submit in which the full name, the student ID, the
\* contact number, the email address or the batch is empty is rejected with
\* an error that names the empty fields, and appends no row; a row is written
\* only when all five are filled in.
C22_MissingFieldsRejected ==
    [][(last'.op = "append" /\ last'.outcome # "no_batches")
        => /\ EmptyFields(last') # {}
              => /\ last'.outcome = "missing_fields"
                 /\ last'.missing = EmptyFields(last')
                 /\ sheets' = sheets
           /\ sheets' # sheets => EmptyFields(last') = {}]_vars

\* a submit without a full name, for a batch that exists, has been rejected;
\* the worksheets hold no student row
C22_Witness ==
    /\ last.op = "append" /\ last.outcome = "missing_fields"
    /\ last.missing = {"Full Name"}
    /\ last.name \in AllTitles(sheets)
    /\ DataRows(sheets) = {}

\* C23: for every batch of the directory, the name Add Student recovers from
\* the label of the selected option is the name of the selected batch, and
\* the row is written to the selected batch; for every batch name, also one
\* that holds " (".
C23_RecoveredNameIsSelected ==
    (last.op = "append" /\ last.selected # NoTarget)
    => /\ last.name = sheets[last.selected.type][last.selected.idx].title
       /\ last.outcome = "added" => last.target = last.selected

\* the rows of a worksheet that append_student has written: create_batch
\* writes the header row, append_student every other row
Appended(ws) == Cardinality({k \in 1..Len(ws.rows) : ws.rows[k] # Headers})

\* C24: for every batch that create_batch has made, after any appends, the
\* count get_student_count gives for it is the number of rows append_student
\* has written to it, and is the number of records that a search with an
\* empty query, filtered to the batch, returns.
C24_CountIsRowsWritten ==
    last.op = "list"
    => \A j \in 1..Len(last.found) :
          LET b == last.found[j]
              ws == sheets[b.type][b.idx]
          IN /\ last.counts[j] = Appended(ws)
             /\ last.counts[j] = Len(search(sheets, AllReach, Empty, "All Fields",
                                            ws.title, b.type, AllYears))

====
